---- MODULE Spec2Model ----
(***************************************************************************)
(* A model of the light-ray engine of komcat/openglfw: LightRay (the       *)
(* geodesic and the simple build of LightRay.cpp), RayFactory and its      *)
(* spawn strategies, and the periodic-spawn BlackholeApp.                  *)
(*                                                                         *)
(* Numbers.  The program computes in 32-bit floats.  The model computes in *)
(* fixed point: a float f is the integer round(f * Unit), so lengths are   *)
(* in 1/1000 of a world unit, speeds in 1/1000 unit per second, forces in  *)
(* 1/1000, angles in milliradians, and times in milliseconds.  Every       *)
(* product and quotient is rounded to the nearest integer.  A vector is a  *)
(* record [x, y, nan]; nan marks the IEEE NaN vector, which glm::normalize *)
(* returns for the zero vector (0 * inversesqrt(0) = 0 * inf).             *)
(***************************************************************************)
EXTENDS Integers, Sequences, FiniteSets, TLC

\* One float unit (1.0f) in the fixed-point representation.
Unit == 1000

\* ------------------------------------------------------------------ scalars

Abs(a) == IF a < 0 THEN -a ELSE a

Min(a, b) == IF a < b THEN a ELSE b

Max(a, b) == IF a > b THEN a ELSE b

\* a / b rounded to the nearest integer, symmetric around 0 (b > 0).
RDiv(a, b) ==
  IF a >= 0 THEN (2 * a + b) \div (2 * b) ELSE -((2 * (-a) + b) \div (2 * b))

\* The product of two fixed-point numbers, a * s / Unit rounded as RDiv rounds
\* it, with the whole units of |s| multiplied apart so that the intermediate
\* product stays within 32 bits.
Times(a, s) ==
  LET whole == Abs(s) \div Unit
      part == Abs(s) % Unit
      size == Abs(a) * whole + RDiv(Abs(a) * part, Unit)
  IN  IF (a < 0) = (s < 0) THEN size ELSE -size

RECURSIVE SqrtSearch(_, _, _)
SqrtSearch(n, lo, hi) ==
  IF lo >= hi THEN lo
  ELSE LET mid == (lo + hi + 1) \div 2
       IN  IF mid * mid <= n THEN SqrtSearch(n, mid, hi)
                             ELSE SqrtSearch(n, lo, mid - 1)

\* sqrt(n) rounded to the nearest integer, n >= 0.
Sqrt(n) ==
  LET s == SqrtSearch(n, 0, Min(n, 46340))
  IN  IF n > s * s + s THEN s + 1 ELSE s

\* ------------------------------------------------------------------ glm::vec2

V(x, y) == [x |-> x, y |-> y, nan |-> FALSE]

NaNVec == [x |-> 0, y |-> 0, nan |-> TRUE]

VAdd(a, b) == IF a.nan \/ b.nan THEN NaNVec ELSE V(a.x + b.x, a.y + b.y)

VSub(a, b) == IF a.nan \/ b.nan THEN NaNVec ELSE V(a.x - b.x, a.y - b.y)

\* vector * scalar, the scalar a fixed-point number.
VScale(a, s) == IF a.nan THEN NaNVec ELSE V(Times(a.x, s), Times(a.y, s))

\* vector / scalar, the scalar a positive fixed-point number.
VDivS(a, s) == IF a.nan THEN NaNVec ELSE V(RDiv(a.x * Unit, s), RDiv(a.y * Unit, s))

\* glm::dot of two non-NaN vectors.
Dot(a, b) == RDiv(a.x * b.x + a.y * b.y, Unit)

\* glm::length of a non-NaN vector (a NaN vector is tested by the caller:
\* every comparison with its length is false).
RECURSIVE Length(_)
Length(a) ==
  IF Max(Abs(a.x), Abs(a.y)) > 30000
  THEN 10 * Length(V(RDiv(a.x, 10), RDiv(a.y, 10)))
  ELSE Sqrt(a.x * a.x + a.y * a.y)

\* Whether both components are small enough for the squares to be summed.
Small(a) == Max(Abs(a.x), Abs(a.y)) <= 30000

\* length(a) < s as the float comparison decides it: false for NaN.
LengthBelow(a, s) ==
  /\ ~a.nan
  /\ IF Small(a) /\ s <= 30000 THEN a.x * a.x + a.y * a.y < s * s ELSE Length(a) < s

\* length(a) > s as the float comparison decides it: false for NaN.
LengthAbove(a, s) ==
  /\ ~a.nan
  /\ IF Small(a) /\ s <= 30000 THEN a.x * a.x + a.y * a.y > s * s ELSE Length(a) > s

\* The direction of a, kept in the range where the fixed-point square root is
\* accurate (normalisation does not depend on the vector's scale).
RECURSIVE Rescale(_)
Rescale(a) ==
  LET m == Max(Abs(a.x), Abs(a.y))
  IN  IF m > 30000 THEN Rescale(V(RDiv(a.x, 10), RDiv(a.y, 10)))
      ELSE IF m < 1000 THEN Rescale(V(a.x * 10, a.y * 10))
      ELSE a

\* glm::normalize: a * inversesqrt(dot(a, a)); NaN for the zero vector.
Normalize(a) ==
  IF a.nan \/ (a.x = 0 /\ a.y = 0) THEN NaNVec
  ELSE LET b == Rescale(a)
       IN  VDivS(b, Sqrt(b.x * b.x + b.y * b.y))

\* ------------------------------------------------------------------ cos, sin

\* M_PI and 2 * M_PI in milliradians.
Pi == 3142

TwoPi == 6283

\* An angle brought into (-Pi, Pi].
RECURSIVE WrapAngle(_)
WrapAngle(a) ==
  IF a > Pi THEN WrapAngle(a - TwoPi)
  ELSE IF a <= -Pi THEN WrapAngle(a + TwoPi)
  ELSE a

\* cos on [-Pi/2, Pi/2], by its Taylor series (Horner form, four terms).
CosSeries(x) ==
  LET x2 == RDiv(x * x, Unit)
      h4 == Unit - RDiv(x2, 56)
      h3 == Unit - RDiv(x2 * h4, 30 * Unit)
      h2 == Unit - RDiv(x2 * h3, 12 * Unit)
  IN  Unit - RDiv(x2 * h2, 2 * Unit)

\* sin on [-Pi/2, Pi/2], by its Taylor series (Horner form, four terms).
SinSeries(x) ==
  LET x2 == RDiv(x * x, Unit)
      h4 == Unit - RDiv(x2, 42)
      h3 == Unit - RDiv(x2 * h4, 20 * Unit)
      h2 == Unit - RDiv(x2 * h3, 6 * Unit)
  IN  RDiv(x * h2, Unit)

Cos(a) ==
  LET x == WrapAngle(a)
  IN  IF 2 * x > Pi THEN -CosSeries(x - Pi)
      ELSE IF 2 * x < -Pi THEN -CosSeries(x + Pi)
      ELSE CosSeries(x)

Sin(a) ==
  LET x == WrapAngle(a)
  IN  IF 2 * x > Pi THEN -SinSeries(x - Pi)
      ELSE IF 2 * x < -Pi THEN -SinSeries(x + Pi)
      ELSE SinSeries(x)

\* ------------------------------------------------------------------ state

VARIABLES
  variant,              \* which build of LightRay.cpp is linked: "geodesic" or "simple"
  gravityMultiplier,    \* LightRay::gravityMultiplier (static)
  maxForce,             \* LightRay::maxForce (static)
  forceExponent,        \* LightRay::forceExponent (static)
  minDistance,          \* LightRay::minDistance (static)
  blackholePos,         \* BlackholeApp::blackholePos
  blackholeMass,        \* BlackholeApp::blackholeMass
  blackholeRadius,      \* BlackholeApp::blackholeRadius, the event horizon
  rays,                 \* BlackholeApp::rays, the population (a sequence of LightRay)
  raySpeed,             \* BlackholeApp::raySpeed
  timeSinceLastSpawn,   \* BlackholeApp::timeSinceLastSpawn
  spawnInterval,        \* BlackholeApp::spawnInterval
  currentPattern,       \* BlackholeApp::currentPattern
  currentStrategy,      \* RayFactory::currentStrategy: which strategy, and its state
  frame,                \* the number of calls (Update calls, for one ray) made so far
  speedCalls,           \* the number of SetSpeed calls made so far
  call,                 \* the last call made: its name, its arguments, the state it found
  args,                 \* the arguments of a call of one of the two force functions
  result,               \* what that call returned
  keysWerePressed       \* ProcessInput's statics key1WasPressed .. key4WasPressed

vars ==
  <<variant, gravityMultiplier, maxForce, forceExponent, minDistance,
    blackholePos, blackholeMass, blackholeRadius, rays, frame, speedCalls, call,
    raySpeed, timeSinceLastSpawn, spawnInterval, currentPattern, currentStrategy,
    args, result, keysWerePressed>>

\* The part of the state only BlackholeApp and RayFactory write.
appVars ==
  <<raySpeed, timeSinceLastSpawn, spawnInterval, currentPattern, currentStrategy,
    keysWerePressed>>

\* A SetSpawnStrategy that leaves the constructor's left-edge strategy in
\* place: what C14 rules out.
SetSpawnStrategyIgnored(pattern) == [kind |-> "LEFT_EDGE", currentAngle |-> 0]

\* RayFactory::SetSpawnStrategy(pattern): a fresh strategy object.
SetSpawnStrategy(pattern) == [kind |-> pattern, currentAngle |-> 0]

\* BlackholeApp::BlackholeApp, the members the spawning reads; rayFactory is a
\* default-constructed RayFactory.
AppConstructed ==
  /\ raySpeed = 840
  /\ timeSinceLastSpawn = 0
  /\ spawnInterval = 200
  /\ currentPattern = "RADIAL"
  /\ currentStrategy = SetSpawnStrategy("LEFT_EDGE")
  /\ keysWerePressed = {}

\* LightRay::ABSORPTION_RESPAWN_TIME, 0.1 s, in milliseconds.
ABSORPTION_RESPAWN_TIME == 100

\* ------------------------------------------------------------------ LightRay

\* The number of trail points Reset lays down behind the head.
InitialTrail == IF variant = "geodesic" THEN 50 ELSE 10

\* The state LightRay::Reset leaves, given the jittered head and the cosine and
\* sine of the jittered angle.
ResetTo(ray, head, c, sn) ==
  LET vel == V(RDiv(ray.baseSpeed * c, Unit), RDiv(ray.baseSpeed * sn, Unit))
      segmentLength == 20
  IN  [ray EXCEPT
        !.absorbed = FALSE,
        !.timeSinceAbsorption = 0,
        !.properTime = 0,
        !.headPosition = head,
        !.headVelocity = vel,
        !.angularMomentum =
          IF variant = "geodesic"
          THEN RDiv(head.x * vel.y - head.y * vel.x, Unit)
          ELSE 0,
        !.segments =
          [i \in 1..InitialTrail |->
            V(head.x - RDiv((i - 1) * segmentLength * c, Unit),
              head.y - RDiv((i - 1) * segmentLength * sn, Unit))]]

\* A Reset that takes the jittered head as the new start position, so that the
\* jitter of repeated Resets adds up: what C21 rules out.
ResetMovingStart(ray, noise) ==
  [ResetTo(ray,
           VAdd(ray.startPosition, V(noise.px, noise.py)),
           Cos(ray.initialAngle + noise.ang),
           Sin(ray.initialAngle + noise.ang))
   EXCEPT !.startPosition = VAdd(ray.startPosition, V(noise.px, noise.py))]

\* LightRay::Reset; noise = [px, py, ang] are the three draws of the jitter.
Reset(ray, noise) ==
  ResetTo(ray,
          VAdd(ray.startPosition, V(noise.px, noise.py)),
          Cos(ray.initialAngle + noise.ang),
          Sin(ray.initialAngle + noise.ang))

\* LightRay::LightRay(startPos, speed, segmentCount, angle).
LightRay(startPos, speed, segmentCount, angle, noise) ==
  Reset([startPosition |-> startPos,
         baseSpeed |-> speed,
         initialAngle |-> angle,
         absorbed |-> FALSE,
         maxSegments |-> IF variant = "geodesic" THEN segmentCount * 10
                                                 ELSE segmentCount,
         timeSinceAbsorption |-> 0,
         properTime |-> 0,
         angularMomentum |-> 0,
         headPosition |-> V(0, 0),
         headVelocity |-> V(0, 0),
         segments |-> <<>>],
        noise)

\* LightRay::SetSpeed.
SetSpeed(ray, s) == [ray EXCEPT !.baseSpeed = s]

\* distance clamped from below by minDistance (false for NaN: no clamp needed,
\* the callers test NaN first).
ClampDistance(d) == IF d < minDistance THEN minDistance ELSE d

\* LightRay::CalculateGeodesicDeflection (geodesic build).
CalculateGeodesicDeflection(ray, position, velocity, bhPos, mass) ==
  LET toBlackhole == VSub(bhPos, position)
  IN  IF toBlackhole.nan THEN NaNVec
      ELSE
        LET r == ClampDistance(Length(toBlackhole))
            rs == 2 * mass
        IN  IF 2 * r < rs
            THEN VScale(Normalize(toBlackhole), maxForce)
            ELSE
              LET rHat == VDivS(toBlackhole, r)
                  phiHat == V(-rHat.y, rHat.x)
                  rsOverR == RDiv(rs * Unit, r)                  \* rs / r
                  rsOver2r2 == RDiv(rsOverR * Unit, 2 * r)       \* rs / (2 r^2)
                  rsOverR3 == RDiv(2 * rsOver2r2 * Unit, r)      \* rs / r^3
                  radialAccel == -RDiv(rsOver2r2 * (Unit - rsOverR), Unit)
                  tangentialAccel ==
                    -RDiv(RDiv(rsOverR3 * Abs(ray.angularMomentum), Unit), 10)
                  combined == VAdd(VScale(rHat, radialAccel),
                                   VScale(phiHat, tangentialAccel))
                  acceleration == VScale(combined, gravityMultiplier)
                  accelMagnitude == Length(acceleration)
              IN  IF accelMagnitude > maxForce
                  THEN VScale(VDivS(acceleration, accelMagnitude), maxForce)
                  ELSE acceleration

\* A time dilation without the clamp at 10: what C11 rules out.
UnclampedTimeDilation(r, mass) ==
  IF r <= 2 * mass THEN Unit \div 100
  ELSE RDiv(Unit * Unit, Max(1, Sqrt((Unit - RDiv(2 * mass * Unit, r)) * Unit)))

\* LightRay::CalculateTimeDilation (geodesic build): 0.01 is Unit / 100.
CalculateTimeDilation(r, mass) ==
  LET rs == 2 * mass
  IN  IF r <= rs THEN Unit \div 100
      ELSE LET root == Sqrt((Unit - RDiv(rs * Unit, r)) * Unit)  \* sqrt(1 - rs/r)
           IN  IF root = 0 THEN 10 * Unit                        \* min(inf, 10)
               ELSE Min(RDiv(Unit * Unit, root), 10 * Unit)

\* The largest magnitude the model keeps for an intermediate force: the code's
\* floats go further, and the cap at maxForce that follows hides the difference.
ForceSaturation == 1000 * Unit

\* f / distance^n, as n divisions.
RECURSIVE DivPow(_, _, _)
DivPow(f, distance, n) ==
  IF n = 0 THEN f
  ELSE DivPow(Min(RDiv(f * Unit, distance), ForceSaturation), distance, n - 1)

\* f / pow(distance, exponent): the whole part of the exponent as divisions, its
\* fractional part by interpolating the divisor between 1 and distance.
DivByPow(f, distance, exponent) ==
  LET whole == exponent \div Unit
      frac == exponent % Unit
      g == DivPow(f, distance, whole)
  IN  IF frac = 0 THEN g
      ELSE Min(RDiv(g * Unit, Max(1, Unit + RDiv(frac * (distance - Unit), Unit))),
               ForceSaturation)

\* The inverse-power force without the cap at maxForce: what C9 rules out.
UncappedGravitationalForce(position, bhPos, mass) ==
  LET toBlackhole == VSub(bhPos, position)
  IN  IF toBlackhole.nan THEN NaNVec
      ELSE
        LET distance == ClampDistance(Length(toBlackhole))
            forceMagnitude ==
              DivByPow(RDiv(mass * gravityMultiplier, Unit), distance, forceExponent)
        IN  VScale(Normalize(toBlackhole), forceMagnitude)

\* LightRay::CalculateGravitationalForce (simple build).
CalculateGravitationalForce(position, bhPos, mass) ==
  LET toBlackhole == VSub(bhPos, position)
  IN  IF toBlackhole.nan THEN NaNVec
      ELSE
        LET distance == ClampDistance(Length(toBlackhole))
            forceMagnitude ==
              Min(DivByPow(RDiv(mass * gravityMultiplier, Unit), distance, forceExponent),
                  maxForce)
        IN  VScale(Normalize(toBlackhole), forceMagnitude)

\* The absorption branch shared by both builds: freeze at the event horizon.
Absorb(ray, bhPos, eventHorizon) ==
  LET toCenter == VSub(bhPos, ray.headPosition)
  IN  [ray EXCEPT
        !.absorbed = TRUE,
        !.timeSinceAbsorption = 0,
        !.headPosition = VSub(bhPos, VScale(Normalize(toCenter), eventHorizon))]

\* x * vy - y * vx, NaN-free operands only (a NaN head leaves the stale value:
\* nothing reads it before the next Reset recomputes it).
Cross(p, v) == IF p.nan \/ v.nan THEN 0 ELSE RDiv(p.x * v.y - p.y * v.x, Unit)

\* The proper-time step of the geodesic PropagateRay: deltaTime divided by the
\* time dilation at the head's distance.
EffectiveDeltaTime(ray, deltaTime, bhPos, mass) ==
  RDiv(deltaTime * Unit,
       CalculateTimeDilation(Length(VSub(ray.headPosition, bhPos)), mass))

\* The geodesic build's velocity update: newVelocity rescaled to baseSpeed,
\* unless its length is not above 0.001, when headVelocity is left as it is.
Renormalised(ray, newVelocity) ==
  IF LengthAbove(newVelocity, 1)
  THEN VScale(Normalize(newVelocity), ray.baseSpeed)
  ELSE ray.headVelocity

\* The geodesic build's position update with the velocity vel over the step
\* effectiveDeltaTime, and the proper time and angular momentum after it.
MovedGeodesic(ray, vel, effectiveDeltaTime) ==
  LET head == VAdd(ray.headPosition, VScale(vel, effectiveDeltaTime))
  IN  [ray EXCEPT
        !.properTime = @ + effectiveDeltaTime,
        !.headVelocity = vel,
        !.headPosition = head,
        !.angularMomentum = Cross(head, vel)]

\* The geodesic integration over the step effectiveDeltaTime.
IntegrateOver(ray, effectiveDeltaTime, bhPos, mass) ==
  MovedGeodesic(
    ray,
    Renormalised(
      ray,
      VAdd(ray.headVelocity,
           VScale(CalculateGeodesicDeflection(ray, ray.headPosition, ray.headVelocity,
                                              bhPos, mass),
                  effectiveDeltaTime))),
    effectiveDeltaTime)

\* LightRay::PropagateRay, geodesic build, up to the event-horizon test: time
\* dilation, deflection, renormalised velocity, position, angular momentum.
IntegrateGeodesic(ray, deltaTime, bhPos, mass) ==
  IntegrateOver(ray, EffectiveDeltaTime(ray, deltaTime, bhPos, mass), bhPos, mass)

\* The event-horizon branch: the moved ray absorbed if the test hit.
AbsorbWhen(hit, moved, bhPos, eventHorizon) ==
  IF hit THEN Absorb(moved, bhPos, eventHorizon) ELSE moved

\* LightRay::PropagateRay, geodesic build: the horizon test reads r, the
\* distance computed before the position was advanced.
PropagateRayGeodesic(ray, deltaTime, bhPos, mass, eventHorizon) ==
  IF ray.absorbed
  THEN [ray EXCEPT !.timeSinceAbsorption = @ + deltaTime]
  ELSE AbsorbWhen(Length(VSub(ray.headPosition, bhPos)) < eventHorizon,
                  IntegrateGeodesic(ray, deltaTime, bhPos, mass),
                  bhPos, eventHorizon)

\* The component of force perpendicular to the unit velocity velNorm.
Perpendicular(force, velNorm) ==
  IF force.nan \/ velNorm.nan THEN NaNVec
  ELSE VSub(force, VScale(velNorm, Dot(force, velNorm)))

\* The simple build's position update with the velocity vel.
MovedSimple(ray, vel, deltaTime) ==
  [ray EXCEPT !.headVelocity = vel,
              !.headPosition = VAdd(ray.headPosition, VScale(vel, deltaTime))]

\* LightRay::PropagateRay, simple build, up to the event-horizon test:
\* perpendicular deflection, renormalised velocity, position.
IntegrateSimple(ray, deltaTime, bhPos, mass) ==
  MovedSimple(
    ray,
    VScale(
      Normalize(
        VAdd(ray.headVelocity,
             VScale(Perpendicular(
                      CalculateGravitationalForce(ray.headPosition, bhPos, mass),
                      Normalize(ray.headVelocity)),
                    deltaTime))),
      ray.baseSpeed),
    deltaTime)

\* The simple build's event-horizon branch: the test reads the distance of the
\* advanced head.
AbsorbInside(moved, bhPos, eventHorizon) ==
  AbsorbWhen(LengthBelow(VSub(moved.headPosition, bhPos), eventHorizon),
             moved, bhPos, eventHorizon)

\* LightRay::PropagateRay, simple build.
PropagateRaySimple(ray, deltaTime, bhPos, mass, eventHorizon) ==
  IF ray.absorbed
  THEN [ray EXCEPT !.timeSinceAbsorption = @ + deltaTime]
  ELSE AbsorbInside(IntegrateSimple(ray, deltaTime, bhPos, mass), bhPos, eventHorizon)

\* A PropagateRay that keeps integrating an absorbed ray: what C4 rules out.
PropagateRayWhileAbsorbed(ray, deltaTime, bhPos, mass, eventHorizon) ==
  IF ray.absorbed
  THEN LET moved == IF variant = "geodesic"
                    THEN IntegrateGeodesic(ray, deltaTime, bhPos, mass)
                    ELSE IntegrateSimple(ray, deltaTime, bhPos, mass)
       IN  [moved EXCEPT !.timeSinceAbsorption = @ + deltaTime]
  ELSE IF variant = "geodesic"
       THEN PropagateRayGeodesic(ray, deltaTime, bhPos, mass, eventHorizon)
       ELSE PropagateRaySimple(ray, deltaTime, bhPos, mass, eventHorizon)

\* A PropagateRay that leaves the absorption timer of an absorbed ray alone:
\* what C23 rules out.
PropagateRayTimerStopped(ray, deltaTime, bhPos, mass, eventHorizon) ==
  IF ray.absorbed THEN ray
  ELSE IF variant = "geodesic"
       THEN PropagateRayGeodesic(ray, deltaTime, bhPos, mass, eventHorizon)
       ELSE PropagateRaySimple(ray, deltaTime, bhPos, mass, eventHorizon)

\* LightRay::PropagateRay of the build that is linked.
PropagateRay(ray, deltaTime, bhPos, mass, eventHorizon) ==
  IF variant = "geodesic"
  THEN PropagateRayGeodesic(ray, deltaTime, bhPos, mass, eventHorizon)
  ELSE PropagateRaySimple(ray, deltaTime, bhPos, mass, eventHorizon)

\* A resize that would drop entries from the front: what C7 rules out.
ResizeFromFront(s, n) == SubSeq(s, Len(s) - n + 1, Len(s))

\* std::vector::resize(n) on a longer vector: the first n entries.
Resize(s, n) == SubSeq(s, 1, n)

\* The comparison segments.size() > maxSegments: maxSegments is an int, and
\* is converted to size_t, so a negative maxSegments compares as a huge one.
SizeAbove(s, maxSegments) == maxSegments >= 0 /\ Len(s) > maxSegments

\* LightRay::UpdateSegments (the same in both builds).
UpdateSegments(ray) ==
  IF ray.absorbed THEN ray
  ELSE
    LET grown ==
          IF ray.segments # <<>>
          THEN IF LengthAbove(VSub(ray.headPosition, ray.segments[1]), 10)
               THEN <<ray.headPosition>> \o ray.segments
               ELSE ray.segments
          ELSE <<ray.headPosition>>
    IN  [ray EXCEPT
          !.segments = IF SizeAbove(grown, ray.maxSegments)
                       THEN Resize(grown, ray.maxSegments)
                       ELSE grown]

\* A respawn test that includes the threshold itself: what C5 rules out.
ShouldRespawnAtThreshold(ray) ==
  ray.absorbed /\ ray.timeSinceAbsorption >= ABSORPTION_RESPAWN_TIME

\* LightRay::ShouldRespawn.
ShouldRespawn(ray) == ray.absorbed /\ ray.timeSinceAbsorption > ABSORPTION_RESPAWN_TIME

\* LightRay::NeedsReset.
NeedsReset(ray) ==
  IF ray.segments = <<>> THEN TRUE
  ELSE IF ray.absorbed THEN FALSE
  ELSE IF LengthAbove(ray.headPosition, 2500) THEN TRUE
  ELSE LET maxVisible == 2 * Unit
           anyVisible ==
             \E i \in 1..Min(20, Len(ray.segments)) :
               /\ Abs(ray.segments[i].x) <= maxVisible
               /\ Abs(ray.segments[i].y) <= maxVisible
       IN  ~anyVisible

\* LightRay::Update up to its two tests: PropagateRay, then UpdateSegments.
Advance(ray, deltaTime, bhPos, mass, eventHorizon) ==
  UpdateSegments(PropagateRay(ray, deltaTime, bhPos, mass, eventHorizon))

\* The two tests that end LightRay::Update, on the ray it has advanced.
Resets(stepped) == NeedsReset(stepped) \/ ShouldRespawn(stepped)

\* The end of LightRay::Update: Reset if either test says so; noise is the
\* jitter Reset draws if it runs.
Finish(stepped, noise) ==
  IF NeedsReset(stepped) THEN Reset(stepped, noise)
  ELSE IF ShouldRespawn(stepped) THEN Reset(stepped, noise)
  ELSE stepped

\* LightRay::Update.
Update(ray, deltaTime, bhPos, mass, eventHorizon, noise) ==
  Finish(Advance(ray, deltaTime, bhPos, mass, eventHorizon), noise)

\* Whether this Update call ends in Reset (and so draws jitter).
EndsInReset(ray, deltaTime, bhPos, mass, eventHorizon) ==
  Resets(Advance(ray, deltaTime, bhPos, mass, eventHorizon))

\* ------------------------------------------------------------------ one ray
\* A single LightRay driven through its public interface: constructed, then
\* Update and SetSpeed in any order, as BlackholeApp drives each of its rays.

\* The most Update calls, and the most SetSpeed calls, of one behaviour.
MaxFrames == 4

MaxSetSpeed == 1

Variants == {"geodesic", "simple"}

\* The black hole and the force cap: BlackholeApp's defaults (mass 0.22,
\* radius 0.288, cap 15), and a heavy hole under the lowest cap (mass 1, cap 1).
Worlds ==
  { [mass |-> 220, radius |-> 288, cap |-> 15 * Unit],
    [mass |-> Unit, radius |-> 288, cap |-> Unit] }

\* The constructor's arguments.
Launches ==
  { [pos |-> V(-420, 0), angle |-> 0, speed |-> 840, segmentCount |-> 10],
    [pos |-> V(500, 0), angle |-> 0, speed |-> 500, segmentCount |-> 10],
    [pos |-> V(-600, 250), angle |-> 0, speed |-> 840, segmentCount |-> 3],
    [pos |-> V(2300, 500), angle |-> 0, speed |-> 840, segmentCount |-> 10] }

\* Draws of Reset's jitter: posNoise twice (each within +-0.02) and angleNoise
\* (within +-0.03).
Noise ==
  { [px |-> 0, py |-> 0, ang |-> 0],
    [px |-> -20, py |-> 13, ang |-> -30],
    [px |-> 19, py |-> -20, ang |-> 30] }

\* The jitter of a call that draws none.
NoNoise == [px |-> 0, py |-> 0, ang |-> 0]

\* The draws of the Update call that has advanced the ray to stepped.
DrawsOf(stepped) == IF Resets(stepped) THEN Noise ELSE {NoNoise}

\* Frame times, in milliseconds.
DeltaTimes == {5, 100, 500}

\* Arguments of SetSpeed.
Speeds == {500, 840}

TheRay == rays[1]

InitRay ==
  /\ variant \in Variants
  /\ gravityMultiplier = Unit
  /\ forceExponent = 2 * Unit
  /\ minDistance = 1
  /\ blackholePos = V(0, 0)
  /\ \E w \in Worlds :
       /\ maxForce = w.cap
       /\ blackholeMass = w.mass
       /\ blackholeRadius = w.radius
  /\ \E l \in Launches, n \in Noise :
       /\ rays = <<LightRay(l.pos, l.speed, l.segmentCount, l.angle, n)>>
       /\ call = [op |-> "LightRay", deltaTime |-> 0, pre |-> <<>>]
  /\ frame = 0
  /\ speedCalls = 0
  /\ AppConstructed
  /\ args = <<>>
  /\ result = <<>>

\* The end of ray.Update on the advanced ray: the jitter drawn, the ray stored.
RayUpdateFrom(stepped, deltaTime) ==
  \E n \in DrawsOf(stepped) :
    /\ rays' = <<Finish(stepped, n)>>
    /\ call' = [op |-> "Update", deltaTime |-> deltaTime, pre |-> TheRay]

\* ray.Update(deltaTime, blackholePos, blackholeMass, blackholeRadius).
RayUpdate ==
  /\ frame < MaxFrames
  /\ \E deltaTime \in DeltaTimes :
       RayUpdateFrom(Advance(TheRay, deltaTime, blackholePos, blackholeMass,
                             blackholeRadius),
                     deltaTime)
  /\ frame' = frame + 1
  /\ UNCHANGED <<variant, gravityMultiplier, maxForce, forceExponent, minDistance,
                 blackholePos, blackholeMass, blackholeRadius, speedCalls,
                 appVars, args, result>>

\* ray.SetSpeed(s).
RaySetSpeed ==
  /\ speedCalls < MaxSetSpeed
  /\ \E s \in Speeds \ {TheRay.baseSpeed} :
       /\ rays' = <<SetSpeed(TheRay, s)>>
       /\ call' = [op |-> "SetSpeed", deltaTime |-> 0, pre |-> TheRay]
  /\ speedCalls' = speedCalls + 1
  /\ UNCHANGED <<variant, gravityMultiplier, maxForce, forceExponent, minDistance,
                 blackholePos, blackholeMass, blackholeRadius, frame, appVars,
                 args, result>>

NextRay == RayUpdate \/ RaySetSpeed

SpecRay == InitRay /\ [][NextRay]_vars

\* ------------------------------------------------------------------ the scenario
\* One ray of the simple build launched from (-2, 0) at angle 0 with speed 0.5
\* towards a black hole of mass 1 and horizon 0.2 at the origin, and Update
\* called again and again.

\* The most Update calls of one behaviour: enough to fly from the launch point
\* into the black hole in steps of half a second and be launched again.
MaxScenarioFrames == 10

\* Frame times, in milliseconds: a short frame and a stall.
ScenarioDeltaTimes == {5, 500}

InitScenario ==
  /\ variant = "simple"
  /\ gravityMultiplier = Unit
  /\ maxForce = 15 * Unit
  /\ forceExponent = 2 * Unit
  /\ minDistance = 1
  /\ blackholePos = V(0, 0)
  /\ blackholeMass = Unit
  /\ blackholeRadius = 200
  /\ \E n \in Noise : rays = <<LightRay(V(-2 * Unit, 0), 500, 10, 0, n)>>
  /\ call = [op |-> "LightRay", deltaTime |-> 0, pre |-> <<>>]
  /\ frame = 0
  /\ speedCalls = 0
  /\ AppConstructed
  /\ args = <<>>
  /\ result = <<>>

\* ray.Update(deltaTime, blackholePos, blackholeMass, blackholeRadius).
ScenarioUpdate ==
  /\ frame < MaxScenarioFrames
  /\ \E deltaTime \in ScenarioDeltaTimes :
       RayUpdateFrom(Advance(TheRay, deltaTime, blackholePos, blackholeMass,
                             blackholeRadius),
                     deltaTime)
  /\ frame' = frame + 1
  /\ UNCHANGED <<variant, gravityMultiplier, maxForce, forceExponent, minDistance,
                 blackholePos, blackholeMass, blackholeRadius, speedCalls,
                 appVars, args, result>>

NextScenario == ScenarioUpdate

SpecScenario == InitScenario /\ [][NextScenario]_vars

\* ------------------------------------------------------------------ respawn
\* One ray launched towards the black hole and Update called for ever, every
\* frame at least MinDeltaTime long. The calls are not counted: a behaviour is
\* infinite, and the main loop calls Update in every iteration.

\* The shortest frame, in milliseconds.
MinDeltaTime == 60

\* Frame times, in milliseconds: the shortest frame and a stall.
RespawnDeltaTimes == {MinDeltaTime, 1000}

\* The constructor's arguments: rays that head for the black hole from the left.
RespawnLaunches ==
  { [pos |-> V(-420, 0), angle |-> 0, speed |-> 840, segmentCount |-> 3],
    [pos |-> V(-600, 0), angle |-> 0, speed |-> 840, segmentCount |-> 3] }

InitRespawn ==
  /\ variant \in Variants
  /\ gravityMultiplier = Unit
  /\ forceExponent = 2 * Unit
  /\ minDistance = 1
  /\ blackholePos = V(0, 0)
  /\ \E w \in Worlds :
       /\ maxForce = w.cap
       /\ blackholeMass = w.mass
       /\ blackholeRadius = w.radius
  /\ \E l \in RespawnLaunches, n \in Noise :
       /\ rays = <<LightRay(l.pos, l.speed, l.segmentCount, l.angle, n)>>
       /\ call = [op |-> "LightRay", deltaTime |-> 0, pre |-> <<>>]
  /\ frame = 0
  /\ speedCalls = 0
  /\ AppConstructed
  /\ args = <<>>
  /\ result = <<>>

\* ray.Update(deltaTime, blackholePos, blackholeMass, blackholeRadius).
RespawnUpdate ==
  /\ \E deltaTime \in RespawnDeltaTimes :
       RayUpdateFrom(Advance(TheRay, deltaTime, blackholePos, blackholeMass,
                             blackholeRadius),
                     deltaTime)
  /\ UNCHANGED <<variant, gravityMultiplier, maxForce, forceExponent, minDistance,
                 blackholePos, blackholeMass, blackholeRadius, frame, speedCalls,
                 appVars, args, result>>

NextRespawn == RespawnUpdate

SpecRespawn == InitRespawn /\ [][NextRespawn]_vars

\* A step that writes the call record of an Update call on the ray: every
\* RespawnUpdate step is one, and a step of SpecRespawn that is one is a
\* RespawnUpdate step.
UpdateCalled ==
  \E deltaTime \in RespawnDeltaTimes :
    call' = [op |-> "Update", deltaTime |-> deltaTime, pre |-> TheRay]

\* The main loop never stops calling Update: the fairness is stated on the call
\* record, whose enabledness is decided without integrating the ray.
SpecRespawnFair == SpecRespawn /\ WF_call(UpdateCalled)

\* ------------------------------------------------------------------ RayFactory

\* What one CreateRayBatch call draws, shared by the rays of its batch: posNoise
\* (within +-0.02), angleNoise (within +-0.01), speedNoise and radiusNoise
\* (within [0.95, 1.05]), and the jitter of the constructors' Reset.
FactoryDraws ==
  { [pos |-> 0, ang |-> 0, speed |-> Unit, radius |-> Unit, reset |-> NoNoise],
    [pos |-> -20, ang |-> 10, speed |-> 950, radius |-> 1050,
     reset |-> [px |-> 19, py |-> -20, ang |-> 30]] }

\* The draw of a call that constructs no ray.
NoDraw == [pos |-> 0, ang |-> 0, speed |-> Unit, radius |-> Unit, reset |-> NoNoise]

\* std::make_unique<LightRay>(pos, raySpeed * speedNoise, segmentCount,
\* angle + angleNoise), as every strategy constructs its rays.
MakeRay(pos, speed, segmentCount, angle, draw) ==
  LightRay(pos, RDiv(speed * draw.speed, Unit), segmentCount, angle + draw.ang,
           draw.reset)

\* LeftEdgeSpawnStrategy::CreateRayBatch: where each ray starts and where it
\* heads, before angleNoise.
LeftEdgeCreateRayBatch(count, draw) ==
  [i \in 1..count |->
     LET spacing == RDiv(4 * Unit, count)
         y == -2 * Unit + spacing * (i - 1) + RDiv(spacing, 2) + draw.pos
     IN  [pos |-> V(-2 * Unit, y), angle |-> 0]]

\* The rays of one edge of the square: k of them, spaced for raysPerEdge.
EdgeRays(k, raysPerEdge, draw, edge) ==
  [i \in 1..k |->
     LET along == -2 * Unit + RDiv(4 * Unit, raysPerEdge + 1) * i + draw.pos
     IN  CASE edge = "left" -> [pos |-> V(-2 * Unit, along), angle |-> 0]
           [] edge = "right" -> [pos |-> V(2 * Unit, along), angle |-> Pi]
           [] edge = "top" -> [pos |-> V(along, 2 * Unit), angle |-> -RDiv(Pi, 2)]
           [] edge = "bottom" -> [pos |-> V(along, -2 * Unit), angle |-> RDiv(Pi, 2)]]

\* A four-edge batch that drops the remainder: what C12 rules out.
FourEdgeWithoutRemainder(count, draw) ==
  EdgeRays(count \div 4, count \div 4, draw, "left")
    \o EdgeRays(count \div 4, count \div 4, draw, "right")
    \o EdgeRays(count \div 4, count \div 4, draw, "top")
    \o EdgeRays(count \div 4, count \div 4, draw, "bottom")

\* A four-edge batch that puts the whole remainder on the left edge: what C13
\* rules out.
FourEdgeRemainderOnLeft(count, draw) ==
  EdgeRays((count \div 4) + (count % 4), count \div 4, draw, "left")
    \o EdgeRays(count \div 4, count \div 4, draw, "right")
    \o EdgeRays(count \div 4, count \div 4, draw, "top")
    \o EdgeRays(count \div 4, count \div 4, draw, "bottom")

\* FourEdgeSpawnStrategy::CreateRayBatch: the same, edge by edge.
FourEdgeCreateRayBatch(count, draw) ==
  LET raysPerEdge == count \div 4
      remainder == count % 4
      spacing == RDiv(4 * Unit, raysPerEdge + 1)
      along(i) == -2 * Unit + spacing * i + draw.pos
      onLeft == raysPerEdge + (IF remainder > 0 THEN 1 ELSE 0)
      afterLeft == IF remainder > 0 THEN remainder - 1 ELSE remainder
      onRight == raysPerEdge + (IF afterLeft > 0 THEN 1 ELSE 0)
      afterRight == IF afterLeft > 0 THEN afterLeft - 1 ELSE afterLeft
      onTop == raysPerEdge + (IF afterRight > 0 THEN 1 ELSE 0)
      left == [i \in 1..onLeft |-> [pos |-> V(-2 * Unit, along(i)), angle |-> 0]]
      right == [i \in 1..onRight |-> [pos |-> V(2 * Unit, along(i)), angle |-> Pi]]
      top == [i \in 1..onTop |->
                [pos |-> V(along(i), 2 * Unit), angle |-> -RDiv(Pi, 2)]]
      bottom == [i \in 1..raysPerEdge |->
                   [pos |-> V(along(i), -2 * Unit), angle |-> RDiv(Pi, 2)]]
  IN  left \o right \o top \o bottom

\* RadialSpawnStrategy::spawnRadius, 2.5 by default.
spawnRadius == 2500

\* A point at the given radius and angle.
Polar(radius, angle) ==
  V(RDiv(radius * Cos(angle), Unit), RDiv(radius * Sin(angle), Unit))

\* RadialSpawnStrategy::CreateRayBatch: the same, around the circle.
RadialCreateRayBatch(count, draw) ==
  [i \in 1..count |->
     [pos |-> Polar(RDiv(spawnRadius * draw.radius, Unit), RDiv(TwoPi * (i - 1), count)),
      angle |-> RDiv(TwoPi * (i - 1), count) + Pi]]

\* SpiralSpawnStrategy's angleIncrement, radiusStart and radiusEnd.
angleIncrement == 100

radiusStart == 2500

radiusEnd == 2000

\* SpiralSpawnStrategy::currentAngle after k more rays.
RECURSIVE SpiralAngle(_, _)
SpiralAngle(angle, k) ==
  IF k = 0 THEN angle
  ELSE LET advanced == SpiralAngle(angle, k - 1) + angleIncrement
       IN  IF advanced > TwoPi THEN advanced - TwoPi ELSE advanced

\* SpiralSpawnStrategy::CreateRayBatch: the same, along the spiral.
SpiralCreateRayBatch(count, currentAngle) ==
  [i \in 1..count |->
     [pos |-> Polar(radiusStart
                      + RDiv((radiusEnd - radiusStart) * RDiv((i - 1) * Unit, count),
                             Unit),
                    SpiralAngle(currentAngle, i - 1)),
      angle |-> SpiralAngle(currentAngle, i - 1) + Pi]]

\* The rays constructed at the places a strategy chose.
MakeRays(places, speed, segmentCount, draw) ==
  [k \in 1..Len(places) |->
     MakeRay(places[k].pos, speed, segmentCount, places[k].angle, draw)]

\* currentStrategy->CreateRayBatch: the virtual call.
CreateRayBatch(strategy, count, speed, segmentCount, draw) ==
  MakeRays(CASE strategy.kind = "LEFT_EDGE" -> LeftEdgeCreateRayBatch(count, draw)
             [] strategy.kind = "FOUR_EDGES" -> FourEdgeCreateRayBatch(count, draw)
             [] strategy.kind = "RADIAL" -> RadialCreateRayBatch(count, draw)
             [] strategy.kind = "SPIRAL" ->
                  SpiralCreateRayBatch(count, strategy.currentAngle),
           speed, segmentCount, draw)

\* The strategy object after CreateRayBatch: only the spiral keeps state.
StrategyAfter(strategy, count) ==
  IF strategy.kind = "SPIRAL"
  THEN [strategy EXCEPT !.currentAngle = SpiralAngle(@, count)]
  ELSE strategy

\* RayFactory::CreateRays once currentStrategy is not null.
CreateRaysWith(used, count, speed, segmentCount, draw) ==
  [rays |-> CreateRayBatch(used, count, speed, segmentCount, draw),
   strategy |-> StrategyAfter(used, count)]

\* A null currentStrategy.
NullStrategy == [kind |-> "NONE", currentAngle |-> 0]

\* RayFactory::GetCurrentStrategyName.
GetCurrentStrategyName(strategy) ==
  CASE strategy.kind = "NONE" -> "None"
    [] strategy.kind = "LEFT_EDGE" -> "LeftEdge"
    [] strategy.kind = "FOUR_EDGES" -> "FourEdge"
    [] strategy.kind = "RADIAL" -> "Radial"
    [] strategy.kind = "SPIRAL" -> "Spiral"

\* A CreateRays without the fallback, which makes no ray on a null strategy and
\* leaves it null: what C26 rules out.
CreateRaysWithoutFallback(strategy, count, speed, segmentCount, draw) ==
  IF strategy.kind = "NONE"
  THEN [rays |-> <<>>, strategy |-> strategy]
  ELSE CreateRaysWith(strategy, count, speed, segmentCount, draw)

\* RayFactory::CreateRays: the rays made, and the strategy left behind.
CreateRays(strategy, count, speed, segmentCount, draw) ==
  CreateRaysWith(IF strategy.kind = "NONE" THEN SetSpawnStrategy("LEFT_EDGE")
                 ELSE strategy,
                 count, speed, segmentCount, draw)

\* ------------------------------------------------------------------ BlackholeApp
\* The periodic-spawn application: constructed, then InitRays, SpawnRayBatch,
\* SetSpawnPattern and Update in any order.

\* BlackholeApp::MAX_RAYS and RAYS_PER_SPAWN, scaled down from 10000 and 500 so
\* that the population reaches its capacity within a few calls.
MAX_RAYS == 6

RAYS_PER_SPAWN == 4

\* The most calls of one behaviour.
MaxCalls == 3

SpawnPatterns == {"LEFT_EDGE", "FOUR_EDGES", "RADIAL", "SPIRAL"}

\* Frame times of the application, in milliseconds: a short frame and a stall
\* (the main loop passes the measured frame time on unclamped).
AppDeltaTimes == {100, 2500}

\* The loop that moves the new rays into the population.
Appended(population, newRays) ==
  [rays |-> population \o newRays.rays, strategy |-> newRays.strategy]

\* A SpawnRayBatch that always asks for a whole batch: what C1 rules out.
UncappedSpawnRayBatch(population, strategy, speed, draw) ==
  Appended(population, CreateRays(strategy, RAYS_PER_SPAWN, speed, 10, draw))

\* BlackholeApp::SpawnRayBatch on a population: the population and the strategy
\* it leaves.
SpawnRayBatch(population, strategy, speed, draw) ==
  IF Len(population) >= MAX_RAYS
  THEN [rays |-> population, strategy |-> strategy]
  ELSE Appended(population,
                CreateRays(strategy, Min(RAYS_PER_SPAWN, MAX_RAYS - Len(population)),
                           speed, 10, draw))

\* The draws a SpawnRayBatch call on the population can make.
DrawsAt(population) == IF Len(population) >= MAX_RAYS THEN {NoDraw} ELSE FactoryDraws

InitApp ==
  /\ variant \in Variants
  /\ gravityMultiplier = Unit
  /\ maxForce = 15 * Unit
  /\ forceExponent = 2 * Unit
  /\ minDistance = 1
  /\ blackholePos = V(0, 0)
  /\ blackholeMass = 220
  /\ blackholeRadius = 288
  /\ rays = <<>>
  /\ frame = 0
  /\ speedCalls = 0
  /\ call = [op |-> "BlackholeApp", deltaTime |-> 0, pre |-> <<>>]
  /\ AppConstructed
  /\ args = <<>>
  /\ result = <<>>

AppFrame ==
  /\ frame < MaxCalls
  /\ frame' = frame + 1
  /\ UNCHANGED <<variant, gravityMultiplier, maxForce, forceExponent, minDistance,
                 blackholePos, blackholeMass, blackholeRadius, speedCalls,
                 raySpeed, spawnInterval, args, result, keysWerePressed>>

\* What a SpawnRayBatch call leaves in the application.
Spawned(spawned) ==
  /\ rays' = spawned.rays
  /\ currentStrategy' = spawned.strategy

\* BlackholeApp::InitRays.
InitRays ==
  /\ \E draw \in FactoryDraws :
       Spawned(SpawnRayBatch(<<>>, currentStrategy, raySpeed, draw))
  /\ timeSinceLastSpawn' = 0
  /\ call' = [op |-> "InitRays", deltaTime |-> 0, pre |-> rays]
  /\ UNCHANGED currentPattern
  /\ AppFrame

\* BlackholeApp::SpawnRayBatch.
CallSpawnRayBatch ==
  /\ \E draw \in DrawsAt(rays) :
       Spawned(SpawnRayBatch(rays, currentStrategy, raySpeed, draw))
  /\ call' = [op |-> "SpawnRayBatch", deltaTime |-> 0, pre |-> rays]
  /\ UNCHANGED <<timeSinceLastSpawn, currentPattern>>
  /\ AppFrame

\* A SetSpawnPattern without its rays.clear(): what C15 rules out.
SetSpawnPatternKeepingRays ==
  /\ \E pattern \in SpawnPatterns, draw \in DrawsAt(rays) :
       /\ currentPattern' = pattern
       /\ Spawned(SpawnRayBatch(rays, SetSpawnStrategy(pattern), raySpeed, draw))
       /\ call' = [op |-> "SetSpawnPattern", deltaTime |-> 0, pre |-> rays,
                   pattern |-> pattern]
  /\ UNCHANGED timeSinceLastSpawn
  /\ AppFrame

\* BlackholeApp::SetSpawnPattern(pattern).
SetSpawnPattern ==
  /\ \E pattern \in SpawnPatterns, draw \in FactoryDraws :
       /\ currentPattern' = pattern
       /\ Spawned(SpawnRayBatch(<<>>, SetSpawnStrategy(pattern), raySpeed, draw))
       /\ call' = [op |-> "SetSpawnPattern", deltaTime |-> 0, pre |-> rays,
                   pattern |-> pattern]
  /\ UNCHANGED timeSinceLastSpawn
  /\ AppFrame

\* Every ray of the population advanced by its Update, up to Update's two tests.
AdvanceAll(population, deltaTime) ==
  [i \in 1..Len(population) |->
     Advance(population[i], deltaTime, blackholePos, blackholeMass, blackholeRadius)]

\* Whether some ray's Update in this frame ends in Reset.
SomeReset(advanced) == \E i \in 1..Len(advanced) : Resets(advanced[i])

\* The erase test of BlackholeApp::Update's loop, on a ray just updated.
Erased(ray) == (NeedsReset(ray) /\ ~ray.absorbed) \/ ShouldRespawn(ray)

\* rays.erase(it): the vector without its entry at it.
RemoveAt(s, it) == SubSeq(s, 1, it - 1) \o SubSeq(s, it + 1, Len(s))

RECURSIVE RayLoop(_, _, _, _, _)

\* A loop body that steps the iterator on after an erase as well: what C28
\* rules out.
AfterRaySkipping(population, ids, it, noise, visits, ray) ==
  IF Erased(ray)
  THEN RayLoop(RemoveAt(population, it), RemoveAt(ids, it), it + 1, noise, visits)
  ELSE RayLoop([population EXCEPT ![it] = ray], ids, it + 1, noise, visits)

\* The body of the loop after ray->Update has left ray at position it:
\* `it = rays.erase(it)` on either erase test, `++it` otherwise.
AfterRay(population, ids, it, noise, visits, ray) ==
  IF Erased(ray)
  THEN RayLoop(RemoveAt(population, it), RemoveAt(ids, it), it, noise, visits)
  ELSE RayLoop([population EXCEPT ![it] = ray], ids, it + 1, noise, visits)

\* The loop of BlackholeApp::Update from the iterator position it, on the rays
\* PropagateRay and UpdateSegments have advanced: ray->Update finishes on the
\* ray at it. ids[k] is the place the ray now at k had when the loop started,
\* and visits counts the ray->Update calls made on each of those places.
RayLoop(population, ids, it, noise, visits) ==
  IF it > Len(population)
  THEN [rays |-> population, visits |-> visits]
  ELSE AfterRay(population, ids, it, noise,
                [visits EXCEPT ![ids[it]] = @ + 1],
                Finish(population[it], noise))

\* The loop of BlackholeApp::Update run from rays.begin(): the rays it leaves, and
\* the count of ray->Update calls per ray.
UpdateAll(advanced, noise) ==
  RayLoop(advanced, [i \in 1..Len(advanced) |-> i], 1, noise,
          [i \in 1..Len(advanced) |-> 0])

\* The loop of BlackholeApp::Update on the advanced rays, and what the call
\* leaves: the population, the strategy and the spawn timer.
UpdateLoop(advanced, strategy, timer, deltaTime) ==
  \E noise \in (IF SomeReset(advanced) THEN Noise ELSE {NoNoise}) :
    \E done \in {UpdateAll(advanced, noise)} :
      /\ rays' = done.rays
      /\ currentStrategy' = strategy
      /\ timeSinceLastSpawn' = timer
      /\ call' = [op |-> "BlackholeApp::Update", deltaTime |-> deltaTime,
                  pre |-> rays, visits |-> done.visits]

\* BlackholeApp::Update after its spawn step.
UpdateSpawned(spawned, timer, deltaTime) ==
  UpdateLoop(AdvanceAll(spawned.rays, deltaTime), spawned.strategy, timer, deltaTime)

\* An Update that spawns when the timer runs out but lets the timer run on:
\* what C24 rules out.
UpdateAfterKeepingTimer(elapsed, deltaTime) ==
  IF elapsed >= spawnInterval
  THEN \E draw \in DrawsAt(rays) :
         UpdateSpawned(SpawnRayBatch(rays, currentStrategy, raySpeed, draw), elapsed,
                       deltaTime)
  ELSE UpdateSpawned([rays |-> rays, strategy |-> currentStrategy], elapsed, deltaTime)

\* BlackholeApp::Update(deltaTime), elapsed being the advanced spawn timer.
UpdateAfter(elapsed, deltaTime) ==
  IF elapsed >= spawnInterval
  THEN \E draw \in DrawsAt(rays) :
         UpdateSpawned(SpawnRayBatch(rays, currentStrategy, raySpeed, draw), 0, deltaTime)
  ELSE UpdateSpawned([rays |-> rays, strategy |-> currentStrategy], elapsed, deltaTime)

\* BlackholeApp::Update(deltaTime).
AppUpdate ==
  /\ \E deltaTime \in AppDeltaTimes :
       UpdateAfter(timeSinceLastSpawn + deltaTime, deltaTime)
  /\ UNCHANGED currentPattern
  /\ AppFrame

NextApp == InitRays \/ CallSpawnRayBatch \/ SetSpawnPattern \/ AppUpdate

SpecApp == InitApp /\ [][NextApp]_vars

\* ------------------------------------------------------------------ ProcessInput
\* The application after Initialize, and ProcessInput called frame after frame
\* with some set of keys held down.

\* The most ProcessInput calls of one behaviour: enough for the gravity
\* multiplier, 45 steps above its lower limit, to be held at it.
MaxInputs == 47

\* The keys held in one call. The first set lowers the five parameters that
\* start near their lower limit, the second raises the two that start near
\* their upper limit; each set also holds both keys of the other parameters
\* (which cancel unless the parameter is at its lower limit), pattern keys and a
\* reset key, so that every branch of the handler runs and a pattern key is
\* seen going down and staying down.
KeySets ==
  { {"Q", "D", "C", "KP_ADD", "G", "Z", "X", "A", "S", "1", "R"},
    {"X", "S", "Q", "E", "D", "F", "C", "V", "EQUAL", "KP_SUBTRACT", "G", "H",
     "2", "3", "SPACE"} }

\* A parameter after its two keys without the limits: what C19 rules out.
AdjustedFreely(value, down, up, step, lowest, highest) ==
  value - (IF down THEN step ELSE 0) + (IF up THEN step ELSE 0)

\* A parameter after its two keys: std::max(lowest, value - step) if the first
\* is held, then std::min(highest, value + step) if the second is.
Adjusted(value, down, up, step, lowest, highest) ==
  IF up
  THEN Min(highest, (IF down THEN Max(lowest, value - step) ELSE value) + step)
  ELSE IF down THEN Max(lowest, value - step) ELSE value

\* The pattern keys that went down since the last call, which the handler
\* serves in the order 1, 2, 3, 4: the last of them is the pattern left.
PatternOf(key) ==
  CASE key = "1" -> "LEFT_EDGE"
    [] key = "2" -> "FOUR_EDGES"
    [] key = "3" -> "RADIAL"
    [] key = "4" -> "SPIRAL"

NewlyPressed(keys) == (keys \cap {"1", "2", "3", "4"}) \ keysWerePressed

LastPressed(keys) ==
  IF "4" \in NewlyPressed(keys) THEN "4"
  ELSE IF "3" \in NewlyPressed(keys) THEN "3"
  ELSE IF "2" \in NewlyPressed(keys) THEN "2"
  ELSE "1"

\* BlackholeApp::UpdateRaySpeed on the population.
UpdateRaySpeed(population, newSpeed) ==
  [i \in 1..Len(population) |-> SetSpeed(population[i], newSpeed)]

\* The population and strategy after the pattern keys: SetSpawnPattern for the
\* last key newly down, if any.
AfterPatternKeys(keys, draw) ==
  IF NewlyPressed(keys) = {}
  THEN [rays |-> rays, strategy |-> currentStrategy]
  ELSE SpawnRayBatch(<<>>, SetSpawnStrategy(PatternOf(LastPressed(keys))),
                     raySpeed, draw)

\* Then the light-speed keys: UpdateRaySpeed if one is held.
AfterSpeedKeys(keys, patterned, newSpeed) ==
  IF keys \cap {"A", "S"} = {}
  THEN patterned
  ELSE [patterned EXCEPT !.rays = UpdateRaySpeed(@, newSpeed)]

\* Then the reset keys: InitRays if one is held.
AfterResetKeys(keys, sped, newSpeed, draw) ==
  IF keys \cap {"R", "SPACE"} = {}
  THEN sped
  ELSE SpawnRayBatch(<<>>, sped.strategy, newSpeed, draw)

\* The light speed after the A and S keys.
SpeedAfter(keys) == Adjusted(raySpeed, "A" \in keys, "S" \in keys, 5, 50, Unit)

InitInput ==
  /\ variant = "simple"
  /\ gravityMultiplier = Unit
  /\ maxForce = 15 * Unit
  /\ forceExponent = 2 * Unit
  /\ minDistance = 1
  /\ blackholePos = V(0, 0)
  /\ blackholeMass = 220
  /\ blackholeRadius = 288
  /\ AppConstructed
  /\ \E draw \in FactoryDraws :
       rays = SpawnRayBatch(<<>>, currentStrategy, raySpeed, draw).rays
  /\ frame = 0
  /\ speedCalls = 0
  /\ call = [op |-> "Initialize", deltaTime |-> 0, pre |-> <<>>]
  /\ args = <<>>
  /\ result = <<>>

\* BlackholeApp::ProcessInput with the given keys held.
ProcessInputWith(keys, first, second) ==
  /\ gravityMultiplier' =
       Adjusted(gravityMultiplier, "D" \in keys, "F" \in keys, 20, 100, 3 * Unit)
  /\ maxForce' = Adjusted(maxForce, "C" \in keys, "V" \in keys, 500, Unit, 50 * Unit)
  /\ forceExponent' =
       Adjusted(forceExponent, "G" \in keys, "H" \in keys, 50, 500, 4 * Unit)
  /\ blackholeMass' =
       Adjusted(blackholeMass, "Q" \in keys, "E" \in keys, 10, 100, 5 * Unit)
  /\ blackholeRadius' =
       Adjusted(blackholeRadius, "Z" \in keys, "X" \in keys, 2, 50, 300)
  /\ spawnInterval' =
       Adjusted(spawnInterval, keys \cap {"KP_ADD", "EQUAL"} # {},
                keys \cap {"KP_SUBTRACT", "MINUS"} # {}, 10, 50, 2 * Unit)
  /\ raySpeed' = SpeedAfter(keys)
  /\ currentPattern' =
       IF NewlyPressed(keys) = {} THEN currentPattern
       ELSE PatternOf(LastPressed(keys))
  /\ Spawned(AfterResetKeys(keys,
                            AfterSpeedKeys(keys, AfterPatternKeys(keys, first),
                                           SpeedAfter(keys)),
                            SpeedAfter(keys), second))
  /\ timeSinceLastSpawn' =
       IF keys \cap {"R", "SPACE"} = {} THEN timeSinceLastSpawn ELSE 0
  /\ keysWerePressed' = keys \cap {"1", "2", "3", "4"}
  /\ call' = [op |-> "ProcessInput", deltaTime |-> 0, pre |-> rays, keys |-> keys]
  /\ frame' = frame + 1
  /\ UNCHANGED <<variant, minDistance, blackholePos, speedCalls, args, result>>

ProcessInput ==
  /\ frame < MaxInputs
  /\ \E keys \in KeySets :
       \E first \in (IF NewlyPressed(keys) = {} THEN {NoDraw} ELSE FactoryDraws),
          second \in (IF keys \cap {"R", "SPACE"} = {} THEN {NoDraw} ELSE FactoryDraws) :
         ProcessInputWith(keys, first, second)

NextInput == ProcessInput

SpecInput == InitInput /\ [][NextInput]_vars

\* ------------------------------------------------------------------ the force functions
\* CalculateGravitationalForce (simple build) and CalculateGeodesicDeflection
\* (geodesic build) called once on arguments drawn from the ranges
\* BlackholeApp::ProcessInput keeps the parameters in.

\* Head positions relative to the black hole, per axis.
Offsets == {-2000, -150, -1, 0, 90, 700}

\* blackholeMass, within [0.1, 5].
Masses == {100, 220, Unit, 5 * Unit}

\* gravityMultiplier, within [0.1, 3].
Multipliers == {100, Unit, 3 * Unit}

\* maxForce, within [1, 50].
ForceCaps == {Unit, 15 * Unit, 50 * Unit}

\* forceExponent, within [0.5, 4].
Exponents == {Unit, 2 * Unit, 2500, 4 * Unit}

\* The ray's angularMomentum.
Momenta == {-1500, 0, 300}

InitForce ==
  /\ variant \in Variants
  /\ gravityMultiplier \in Multipliers
  /\ maxForce \in ForceCaps
  /\ forceExponent \in (IF variant = "simple" THEN Exponents ELSE {2 * Unit})
  /\ minDistance = 1
  /\ blackholePos \in {V(0, 0), V(500, 0)}
  /\ blackholeMass \in Masses
  /\ blackholeRadius = 288
  /\ rays = <<>>
  /\ frame = 0
  /\ speedCalls = 0
  /\ call = [op |-> "none", deltaTime |-> 0, pre |-> <<>>]
  /\ AppConstructed
  /\ \E dx \in Offsets, dy \in Offsets :
     \E l \in (IF variant = "geodesic" THEN Momenta ELSE {0}) :
       args = [position |-> VAdd(blackholePos, V(dx, dy)),
               velocity |-> V(840, 0),
               angularMomentum |-> l]
  /\ result = <<>>

ForceFrame ==
  UNCHANGED <<variant, gravityMultiplier, maxForce, forceExponent, minDistance,
              blackholePos, blackholeMass, blackholeRadius, rays, frame, speedCalls,
              appVars, args>>

\* CalculateGravitationalForce(position, blackholePos, blackholeMass).
CallGravitationalForce ==
  /\ variant = "simple"
  /\ call.op = "none"
  /\ result' = CalculateGravitationalForce(args.position, blackholePos, blackholeMass)
  /\ call' = [call EXCEPT !.op = "CalculateGravitationalForce"]
  /\ ForceFrame

\* CalculateGeodesicDeflection(position, velocity, blackholePos, blackholeMass),
\* on a ray whose angularMomentum is args.angularMomentum.
CallGeodesicDeflection ==
  /\ variant = "geodesic"
  /\ call.op = "none"
  /\ result' = CalculateGeodesicDeflection(args, args.position, args.velocity,
                                           blackholePos, blackholeMass)
  /\ call' = [call EXCEPT !.op = "CalculateGeodesicDeflection"]
  /\ ForceFrame

NextForce == CallGravitationalForce \/ CallGeodesicDeflection

SpecForce == InitForce /\ [][NextForce]_vars

\* ------------------------------------------------------------------ time dilation
\* CalculateTimeDilation called once on a distance and a mass.

\* Distances r: around rs = 2 * mass for each mass, and far from it.
Radii ==
  {0, 1, 100, 199, 200, 201, 202, 210, 250, 288, 439, 440, 441, 445, 500, 1000,
   1999, 2000, 2001, 2020, 2500, 9999, 10000, 10001, 10100, 20000}

InitDilation ==
  /\ variant = "geodesic"
  /\ gravityMultiplier = Unit
  /\ maxForce = 15 * Unit
  /\ forceExponent = 2 * Unit
  /\ minDistance = 1
  /\ blackholePos = V(0, 0)
  /\ blackholeMass \in Masses
  /\ blackholeRadius = 288
  /\ rays = <<>>
  /\ frame = 0
  /\ speedCalls = 0
  /\ call = [op |-> "none", deltaTime |-> 0, pre |-> <<>>]
  /\ AppConstructed
  /\ \E r \in Radii : args = [r |-> r]
  /\ result = <<>>

\* CalculateTimeDilation(r, blackholeMass).
CallTimeDilation ==
  /\ call.op = "none"
  /\ result' = CalculateTimeDilation(args.r, blackholeMass)
  /\ call' = [call EXCEPT !.op = "CalculateTimeDilation"]
  /\ ForceFrame

NextDilation == CallTimeDilation

SpecDilation == InitDilation /\ [][NextDilation]_vars

\* ------------------------------------------------------------------ one batch
\* One CreateRayBatch call on a strategy object, for every count up to MaxCount.

\* The largest batch asked for.
MaxCount == 9

\* The strategy objects: the spiral at the start and in the middle of a turn.
Strategies ==
  {SetSpawnStrategy(pattern) : pattern \in SpawnPatterns}
    \cup {[kind |-> "SPIRAL", currentAngle |-> 6200]}

InitFactory ==
  /\ variant \in Variants
  /\ gravityMultiplier = Unit
  /\ maxForce = 15 * Unit
  /\ forceExponent = 2 * Unit
  /\ minDistance = 1
  /\ blackholePos = V(0, 0)
  /\ blackholeMass = 220
  /\ blackholeRadius = 288
  /\ rays = <<>>
  /\ frame = 0
  /\ speedCalls = 0
  /\ call = [op |-> "none", deltaTime |-> 0, pre |-> <<>>]
  /\ raySpeed = 840
  /\ timeSinceLastSpawn = 0
  /\ spawnInterval = 200
  /\ currentPattern = "RADIAL"
  /\ currentStrategy \in Strategies
  /\ keysWerePressed = {}
  /\ \E count \in 0..MaxCount : args = [count |-> count]
  /\ result = <<>>

\* currentStrategy->CreateRayBatch(count, raySpeed, 10).
CallCreateRayBatch ==
  /\ call.op = "none"
  /\ \E draw \in (IF args.count = 0 THEN {NoDraw} ELSE FactoryDraws) :
       result' = CreateRayBatch(currentStrategy, args.count, raySpeed, 10, draw)
  /\ currentStrategy' = StrategyAfter(currentStrategy, args.count)
  /\ call' = [op |-> "CreateRayBatch", deltaTime |-> 0, pre |-> currentStrategy]
  /\ frame' = frame + 1
  /\ UNCHANGED <<variant, gravityMultiplier, maxForce, forceExponent, minDistance,
                 blackholePos, blackholeMass, blackholeRadius, rays, speedCalls,
                 raySpeed, timeSinceLastSpawn, spawnInterval, currentPattern, args,
                 keysWerePressed>>

NextFactory == CallCreateRayBatch

SpecFactory == InitFactory /\ [][NextFactory]_vars

\* ------------------------------------------------------------------ the factory
\* A RayFactory driven through its public interface: constructed, then
\* SetSpawnStrategy (by pattern, or with a strategy object or nullptr) and
\* CreateRays in any order.

\* The most calls of one behaviour, and the largest count asked for.
MaxFactoryCalls == 3

MaxFactoryCount == 2

InitFactoryUse ==
  /\ variant \in Variants
  /\ gravityMultiplier = Unit
  /\ maxForce = 15 * Unit
  /\ forceExponent = 2 * Unit
  /\ minDistance = 1
  /\ blackholePos = V(0, 0)
  /\ blackholeMass = 220
  /\ blackholeRadius = 288
  /\ rays = <<>>
  /\ frame = 0
  /\ speedCalls = 0
  /\ call = [op |-> "RayFactory", deltaTime |-> 0, pre |-> NullStrategy]
  /\ AppConstructed
  /\ args = <<>>
  /\ result = <<>>

FactoryFrame ==
  /\ frame < MaxFactoryCalls
  /\ frame' = frame + 1
  /\ UNCHANGED <<variant, gravityMultiplier, maxForce, forceExponent, minDistance,
                 blackholePos, blackholeMass, blackholeRadius, rays, speedCalls,
                 raySpeed, timeSinceLastSpawn, spawnInterval, currentPattern,
                 keysWerePressed>>

\* rayFactory.SetSpawnStrategy(pattern).
FactorySetPattern ==
  /\ \E pattern \in SpawnPatterns :
       /\ currentStrategy' = SetSpawnStrategy(pattern)
       /\ args' = [pattern |-> pattern]
  /\ call' = [op |-> "SetSpawnStrategy", deltaTime |-> 0, pre |-> currentStrategy]
  /\ UNCHANGED result
  /\ FactoryFrame

\* rayFactory.SetSpawnStrategy(std::move(strategy)): a strategy object, or
\* nullptr.
FactorySetStrategy ==
  /\ \E strategy \in Strategies \cup {NullStrategy} :
       /\ currentStrategy' = strategy
       /\ args' = [strategy |-> strategy]
  /\ call' = [op |-> "SetSpawnStrategy", deltaTime |-> 0, pre |-> currentStrategy]
  /\ UNCHANGED result
  /\ FactoryFrame

\* What rayFactory.CreateRays leaves: the rays returned and the strategy.
Created(created) ==
  /\ result' = created.rays
  /\ currentStrategy' = created.strategy

\* rayFactory.CreateRays(count, raySpeed, 10).
FactoryCreateRays ==
  /\ \E count \in 0..MaxFactoryCount :
       /\ \E draw \in (IF count = 0 THEN {NoDraw} ELSE FactoryDraws) :
            Created(CreateRays(currentStrategy, count, raySpeed, 10, draw))
       /\ args' = [count |-> count]
  /\ call' = [op |-> "CreateRays", deltaTime |-> 0, pre |-> currentStrategy]
  /\ FactoryFrame

NextFactoryUse == FactorySetPattern \/ FactorySetStrategy \/ FactoryCreateRays

SpecFactoryUse == InitFactoryUse /\ [][NextFactoryUse]_vars

\* ------------------------------------------------------------------ the fixed pool
\* The BlackholeApp that keeps NUM_RAYS rays, one per launch height, and
\* replaces a ray in its slot: Initialize, then InitRays and Update in any order.

\* BlackholeApp::NUM_RAYS, scaled down to three slots; the middle one is at the
\* black hole's height.
NUM_RAYS == 3

\* The most calls of one behaviour.
MaxPoolCalls == 5

\* Frame times of the application, in milliseconds: a short frame and a stall.
PoolDeltaTimes == {100, 2000}

\* The launch height of slot i of 1..NUM_RAYS: -1 + spacing * (i + 1) for the
\* code's index i - 1.
SlotHeight(i) == -Unit + RDiv(2 * Unit, NUM_RAYS + 1) * i

\* std::make_unique<LightRay>(y, raySpeed, 500, 0.0f): a ray launched at height
\* y from the left edge, heading right.
PoolRay(i, speed, noise) == LightRay(V(-2 * Unit, SlotHeight(i)), speed, 500, 0, noise)

\* The pool's InitRays: a new ray in every slot.
PoolInitRays(speed, noise) == [i \in 1..NUM_RAYS |-> PoolRay(i, speed, noise)]

\* An Update loop body that leaves a ray absorbed in this frame in its slot:
\* what C18 rules out.
KeepAbsorbed(i, wasAbsorbed, updated, speed, noise) ==
  IF NeedsReset(updated) THEN PoolRay(i, speed, noise) ELSE updated

\* The body of Update's loop after ray->Update: the ray of slot i replaced if it
\* just got absorbed or needs reset.
Replaced(i, wasAbsorbed, updated, speed, noise) ==
  IF (updated.absorbed /\ ~wasAbsorbed) \/ NeedsReset(updated)
  THEN PoolRay(i, speed, noise)
  ELSE updated

\* The pool after Update(deltaTime).
PoolUpdated(pool, deltaTime, noise) ==
  [i \in 1..Len(pool) |->
     Replaced(i, pool[i].absorbed,
              Update(pool[i], deltaTime, blackholePos, blackholeMass,
                     blackholeRadius, noise),
              raySpeed, noise)]

InitPool ==
  /\ variant \in Variants
  /\ gravityMultiplier = Unit
  /\ maxForce = 15 * Unit
  /\ forceExponent = 2 * Unit
  /\ minDistance = 1
  /\ blackholePos = V(500, 0)
  /\ blackholeMass = Unit
  /\ blackholeRadius = 150
  /\ raySpeed = 300
  /\ \E noise \in Noise : rays = PoolInitRays(raySpeed, noise)
  /\ frame = 0
  /\ speedCalls = 0
  /\ call = [op |-> "Initialize", deltaTime |-> 0, pre |-> <<>>]
  /\ timeSinceLastSpawn = 0
  /\ spawnInterval = 200
  /\ currentPattern = "LEFT_EDGE"
  /\ currentStrategy = SetSpawnStrategy("LEFT_EDGE")
  /\ keysWerePressed = {}
  /\ args = <<>>
  /\ result = <<>>

PoolFrame ==
  /\ frame < MaxPoolCalls
  /\ frame' = frame + 1
  /\ UNCHANGED <<variant, gravityMultiplier, maxForce, forceExponent, minDistance,
                 blackholePos, blackholeMass, blackholeRadius, speedCalls, appVars,
                 args, result>>

\* The R and SPACE keys: InitRays with the black hole back at (0.5, 0), where
\* this model always has it.
PoolReset ==
  /\ \E noise \in Noise : rays' = PoolInitRays(raySpeed, noise)
  /\ call' = [op |-> "Pool::InitRays", deltaTime |-> 0, pre |-> rays]
  /\ PoolFrame

\* The pool's BlackholeApp::Update(deltaTime).
PoolUpdate ==
  /\ \E deltaTime \in PoolDeltaTimes, noise \in Noise :
       /\ rays' = PoolUpdated(rays, deltaTime, noise)
       /\ call' = [op |-> "Pool::Update", deltaTime |-> deltaTime, pre |-> rays]
  /\ PoolFrame

NextPool == PoolReset \/ PoolUpdate

SpecPool == InitPool /\ [][NextPool]_vars

\* ------------------------------------------------------------------ claims

\* The rounding error allowed where the program's floats are compared for
\* equality, in 1/1000.
FloatTol == 2

LastUpdate == call.op = "Update"

\* The ray of the last Update call as PropagateRay's integration leaves it,
\* before the event-horizon test.
Integrated ==
  IF variant = "geodesic"
  THEN IntegrateGeodesic(call.pre, call.deltaTime, blackholePos, blackholeMass)
  ELSE IntegrateSimple(call.pre, call.deltaTime, blackholePos, blackholeMass)

LastUpdateReset ==
  EndsInReset(call.pre, call.deltaTime, blackholePos, blackholeMass, blackholeRadius)

C3_SnappedToHorizon ==
  (LastUpdate /\ ~call.pre.absorbed /\ TheRay.absorbed)
  => LET h == VSub(TheRay.headPosition, blackholePos)
         u == Normalize(VSub(Integrated.headPosition, blackholePos))
     IN  /\ TheRay.timeSinceAbsorption = 0
         /\ ~h.nan
         /\ ~u.nan
         /\ Abs(Length(h) - blackholeRadius) <= FloatTol
         /\ Abs(Dot(h, u) - blackholeRadius) <= FloatTol
         /\ Abs(Dot(h, V(-u.y, u.x))) <= FloatTol

\* C4: an Update call that finds the ray absorbed and does not respawn it
\* changes timeSinceAbsorption alone, which grows by deltaTime.
C4_AbsorbedFrozen ==
  (LastUpdate /\ call.pre.absorbed /\ TheRay.absorbed)
  => TheRay = [call.pre EXCEPT !.timeSinceAbsorption = @ + call.deltaTime]

C4_Witness == LastUpdate /\ call.pre.absorbed /\ TheRay.absorbed

\* C5: an absorbed ray stays absorbed while the accumulated time is at most
\* ABSORPTION_RESPAWN_TIME, and the Update that raises it above resets the ray.
C5_RespawnTiming ==
  (LastUpdate /\ call.pre.absorbed)
  => LET t == call.pre.timeSinceAbsorption + call.deltaTime
     IN  /\ call.pre.timeSinceAbsorption <= ABSORPTION_RESPAWN_TIME
         /\ t <= ABSORPTION_RESPAWN_TIME
              => TheRay.absorbed /\ TheRay.timeSinceAbsorption = t
         /\ t > ABSORPTION_RESPAWN_TIME
              => ~TheRay.absorbed /\ TheRay.timeSinceAbsorption = 0

C5_Witness ==
  /\ LastUpdate
  /\ call.pre.absorbed
  /\ call.pre.timeSinceAbsorption = ABSORPTION_RESPAWN_TIME
  /\ ~TheRay.absorbed

\* C6: after every Update call that leaves the ray non-absorbed, the magnitude
\* of headVelocity is the ray's current baseSpeed.
C6_SpeedIsBaseSpeed ==
  (LastUpdate /\ ~TheRay.absorbed)
  => /\ ~TheRay.headVelocity.nan
     /\ Abs(Length(TheRay.headVelocity) - TheRay.baseSpeed) <= FloatTol

\* C7: an Update call that does not reset the ray leaves a trail that is a
\* prefix of the old trail, or of the old trail with the head put in front.
IsPrefix(s, t) == Len(s) <= Len(t) /\ s = SubSeq(t, 1, Len(s))

C7_TrailImmutable ==
  (LastUpdate /\ ~LastUpdateReset)
  => \/ IsPrefix(TheRay.segments, call.pre.segments)
     \/ IsPrefix(TheRay.segments, <<TheRay.headPosition>> \o call.pre.segments)

C7_Witness ==
  /\ LastUpdate
  /\ ~LastUpdateReset
  /\ Len(call.pre.segments) = TheRay.maxSegments
  /\ TheRay.segments # call.pre.segments
  /\ TheRay.segments[1] = TheRay.headPosition

\* C8: the trail is never longer than maxSegments.
C8_TrailBounded == Len(TheRay.segments) <= TheRay.maxSegments

Returned == call.op \in {"CalculateGravitationalForce", "CalculateGeodesicDeflection"}

\* The rounding error of a vector of magnitude m: FloatTol per unit of magnitude.
TolOf(m) == FloatTol * (1 + m \div Unit)

\* C9: the magnitude of the vector either force function returns is at most
\* maxForce (a NaN result, which no comparison finds above maxForce, is C10's).
C9_ForceCapped ==
  (Returned /\ ~result.nan) => Length(result) <= maxForce + TolOf(maxForce)

\* The cap decides the result: without it the magnitude would be above maxForce.
C9_Witness ==
  /\ Returned
  /\ ~result.nan
  /\ Abs(Length(result) - maxForce) <= TolOf(maxForce)
  /\ args.position # blackholePos

\* C10: at the black-hole centre both force functions return a vector that is
\* not NaN.
C10_FiniteAtCentre ==
  (Returned /\ args.position = blackholePos) => ~result.nan

\* C1: the population never exceeds MAX_RAYS, and a SpawnRayBatch call appends
\* exactly min(RAYS_PER_SPAWN, MAX_RAYS - size) rays to a population below
\* MAX_RAYS and nothing to one at MAX_RAYS.
C1_PopulationBounded ==
  /\ Len(rays) <= MAX_RAYS
  /\ call.op = "SpawnRayBatch" =>
       /\ IsPrefix(call.pre, rays)
       /\ Len(rays) - Len(call.pre) =
            (IF Len(call.pre) < MAX_RAYS
             THEN Min(RAYS_PER_SPAWN, MAX_RAYS - Len(call.pre))
             ELSE 0)

\* A SpawnRayBatch call that found less room than a whole batch and filled it.
C1_Witness ==
  /\ call.op = "SpawnRayBatch"
  /\ Len(call.pre) > 0
  /\ MAX_RAYS - Len(call.pre) < RAYS_PER_SPAWN
  /\ Len(rays) = MAX_RAYS
  /\ Len(rays) > Len(call.pre)

\* 1 - rs / r for the call's arguments, in 1/1000000 (r > 0).
OneMinusRsOverR == (Unit - RDiv(2 * blackholeMass * Unit, args.r)) * Unit

\* C11: CalculateTimeDilation returns a value in [0.01, 10]: 0.01 when
\* r <= rs; when r > rs a factor f in [1, 10] with 1 / f^2 = 1 - rs / r up to
\* rounding, or f = 10 where 1 / sqrt(1 - rs / r) is 10 or more.
C11_TimeDilationRange ==
  call.op = "CalculateTimeDilation" =>
    /\ result >= Unit \div 100
    /\ result <= 10 * Unit
    /\ args.r <= 2 * blackholeMass => result = Unit \div 100
    /\ args.r > 2 * blackholeMass =>
         LET g == RDiv(Unit * Unit, result)
         IN  /\ result >= Unit
             /\ result < 10 * Unit =>
                  Abs(g * g - OneMinusRsOverR) <= FloatTol * (2 * g + 2)
             /\ result = 10 * Unit =>
                  OneMinusRsOverR <= 100 * 100 + FloatTol * (2 * 100 + 2)

\* A factor strictly between 1 and the clamp, and the clamp itself, above rs.
C11_Witness ==
  /\ call.op = "CalculateTimeDilation"
  /\ args.r > 2 * blackholeMass
  /\ result > Unit
  /\ result < 10 * Unit

\* C12: each of the four strategies returns exactly count rays, for every
\* count >= 0, multiples of 4 or not.
C12_BatchHasCountRays ==
  call.op = "CreateRayBatch" => Len(result) = args.count

\* A four-edge batch of more than four rays whose count is no multiple of 4.
C12_Witness ==
  /\ call.op = "CreateRayBatch"
  /\ call.pre.kind = "FOUR_EDGES"
  /\ args.count > 4
  /\ args.count % 4 = 3
  /\ Len(result) = args.count

\* Whether a ray of a four-edge batch was launched from the given edge: its
\* start is on the edge's line and it heads inwards (angleNoise is within 0.01).
OnEdge(ray, edge) ==
  CASE edge = "left" ->
         ray.startPosition.x = -2 * Unit /\ Abs(ray.initialAngle) <= 10
    [] edge = "right" ->
         ray.startPosition.x = 2 * Unit /\ Abs(ray.initialAngle - Pi) <= 10
    [] edge = "top" ->
         ray.startPosition.y = 2 * Unit /\ Abs(ray.initialAngle + RDiv(Pi, 2)) <= 10
    [] edge = "bottom" ->
         ray.startPosition.y = -2 * Unit /\ Abs(ray.initialAngle - RDiv(Pi, 2)) <= 10

\* The number of rays of the batch launched from the edge.
EdgeCount(batch, edge) ==
  Cardinality({k \in 1..Len(batch) : OnEdge(batch[k], edge)})

\* C13: the four-edge strategy gives the left, right, top and bottom edges
\* q + [r >= 1], q + [r >= 2], q + [r >= 3] and q rays, q = count / 4 and
\* r = count % 4, so two edges differ by at most one ray.
C13_RemainderRoundRobin ==
  (call.op = "CreateRayBatch" /\ call.pre.kind = "FOUR_EDGES") =>
    LET q == args.count \div 4
        r == args.count % 4
    IN  /\ EdgeCount(result, "left") = q + (IF r >= 1 THEN 1 ELSE 0)
        /\ EdgeCount(result, "right") = q + (IF r >= 2 THEN 1 ELSE 0)
        /\ EdgeCount(result, "top") = q + (IF r >= 3 THEN 1 ELSE 0)
        /\ EdgeCount(result, "bottom") = q
        /\ \A e, f \in {"left", "right", "top", "bottom"} :
             Abs(EdgeCount(result, e) - EdgeCount(result, f)) <= 1

\* A batch with remainder 2: left and right get one ray more than top and bottom.
C13_Witness ==
  /\ call.op = "CreateRayBatch"
  /\ call.pre.kind = "FOUR_EDGES"
  /\ args.count % 4 = 2
  /\ args.count > 4
  /\ EdgeCount(result, "left") = EdgeCount(result, "bottom") + 1
  /\ EdgeCount(result, "right") = EdgeCount(result, "top") + 1

\* Whether the ray is as its constructor left it.
Constructed(ray) == \E noise \in Noise : ray = Reset(ray, noise)

\* The strategy object as it was before it made a batch of n rays.
StrategyBefore(strategy, n) ==
  IF strategy.kind = "SPIRAL"
  THEN [strategy EXCEPT
         !.currentAngle = IF @ - n * angleIncrement < 0
                          THEN @ - n * angleIncrement + TwoPi
                          ELSE @ - n * angleIncrement]
  ELSE strategy

\* The rays a call appended behind the population it found.
AppendedRays == SubSeq(rays, Len(call.pre) + 1, Len(rays))

\* C14 as stated: every ray of the population before SetSpawnPattern is still
\* in the population, unchanged, after it.
C14_SwapKeepsRays ==
  call.op = "SetSpawnPattern" =>
    \A i \in 1..Len(call.pre) : \E j \in 1..Len(rays) : rays[j] = call.pre[i]

\* C14, amended: SetSpawnPattern(p) installs the strategy for p and discards the
\* population, so that afterwards every ray is a newly constructed one; a
\* SpawnRayBatch leaves the rays it finds as they are and appends a batch placed
\* by the strategy installed last.
C14_SwapDiscardsRays ==
  /\ call.op = "SetSpawnPattern" =>
       /\ currentStrategy.kind = call.pattern
       /\ \A j \in 1..Len(rays) : Constructed(rays[j])
  /\ call.op = "SpawnRayBatch" =>
       /\ IsPrefix(call.pre, rays)
       /\ \E draw \in FactoryDraws :
            AppendedRays =
              CreateRayBatch(StrategyBefore(currentStrategy, Len(AppendedRays)),
                             Len(AppendedRays), raySpeed, 10, draw)

\* SetSpawnPattern called on a population holding a ray that has moved.
C14_Witness ==
  /\ call.op = "SetSpawnPattern"
  /\ \E i \in 1..Len(call.pre) : ~Constructed(call.pre[i])
  /\ currentStrategy.kind = "RADIAL"
  /\ Len(rays) > 0

\* C15: after SetSpawnPattern(p) the population is exactly one fresh batch of
\* min(RAYS_PER_SPAWN, MAX_RAYS) rays produced by the strategy for p, none of
\* the rays before the call among them, and currentPattern = p.
C15_PatternSwapFreshBatch ==
  call.op = "SetSpawnPattern" =>
    /\ currentPattern = call.pattern
    /\ Len(rays) = Min(RAYS_PER_SPAWN, MAX_RAYS)
    /\ \E draw \in FactoryDraws :
         rays = CreateRayBatch([kind |-> call.pattern, currentAngle |-> 0],
                               Min(RAYS_PER_SPAWN, MAX_RAYS), raySpeed, 10, draw)

\* SetSpawnPattern called on a full population of another pattern.
C15_Witness ==
  /\ call.op = "SetSpawnPattern"
  /\ Len(call.pre) = MAX_RAYS
  /\ call.pattern = "FOUR_EDGES"
  /\ Len(rays) = RAYS_PER_SPAWN
  /\ \A i \in 1..Len(call.pre) : \A j \in 1..Len(rays) : rays[j] # call.pre[i]

\* Whether BlackholeApp::Update's call spawned no ray before its loop: the spawn
\* timer did not run out, or the population was at capacity.
NoRaySpawned == timeSinceLastSpawn # 0 \/ Len(call.pre) >= MAX_RAYS

\* Whether the ray, not absorbed, comes to need reset in a frame of deltaTime:
\* after PropagateRay and UpdateSegments its head is farther than 2.5 from the
\* centre or none of its first 20 trail samples is inside the visible bounds.
ComesToNeedReset(ray, deltaTime) ==
  LET moved == Advance(ray, deltaTime, blackholePos, blackholeMass, blackholeRadius)
  IN  ~moved.absorbed /\ NeedsReset(moved)

\* The rays of the population before the call that come to need reset in it.
LeavingRays ==
  {i \in 1..Len(call.pre) : ComesToNeedReset(call.pre[i], call.deltaTime)}

\* C16: a non-absorbed ray that comes to need reset during the frame is erased
\* in that same BlackholeApp::Update, so the population shrinks by one for each
\* such ray.
C16_LeavingRayErased ==
  (call.op = "BlackholeApp::Update" /\ NoRaySpawned) =>
    Len(rays) <= Len(call.pre) - Cardinality(LeavingRays)

\* The rays of the population before the call that are absorbed and pass the
\* respawn timeout in it.
RespawningRays ==
  {i \in 1..Len(call.pre) :
     /\ call.pre[i].absorbed
     /\ ShouldRespawn(Advance(call.pre[i], call.deltaTime, blackholePos,
                              blackholeMass, blackholeRadius))}

\* Whether BlackholeApp::Update's second erase branch would be taken for the
\* ray of the slot, whatever jitter its Reset drew.
ErasedByShouldRespawn(i) ==
  \E noise \in Noise :
    LET ray == Finish(Advance(call.pre[i], call.deltaTime, blackholePos,
                              blackholeMass, blackholeRadius), noise)
    IN  ~(NeedsReset(ray) /\ ~ray.absorbed) /\ ShouldRespawn(ray)

\* C17: a ray that has stayed absorbed past the respawn timeout is
\* reinitialised in place and not removed: BlackholeApp::Update erases no ray
\* through its ShouldRespawn() branch, and the only rays missing after the call
\* are non-absorbed rays that came to need reset, so every absorbed ray's slot
\* still holds a ray.
C17_AbsorbedRayKept ==
  (call.op = "BlackholeApp::Update" /\ NoRaySpawned) =>
    /\ \A i \in 1..Len(call.pre) : ~ErasedByShouldRespawn(i)
    /\ RespawningRays # {} =>
         Len(rays) >= Len(call.pre) - Cardinality(LeavingRays)

\* The slots whose ray became absorbed in the call, or needed reset after its
\* LightRay::Update.
ReplacedSlots ==
  {i \in 1..Len(call.pre) :
     \E noise \in Noise :
       LET updated == Update(call.pre[i], call.deltaTime, blackholePos,
                             blackholeMass, blackholeRadius, noise)
       IN  (updated.absorbed /\ ~call.pre[i].absorbed) \/ NeedsReset(updated)}

\* C18: every Update of the fixed pool keeps NUM_RAYS rays; a ray that became
\* absorbed in the frame or needs reset is replaced at its index by a newly
\* constructed ray of the slot's launch height; no ray of the pool is absorbed
\* when Update returns.
C18_PoolStable ==
  /\ Len(rays) = NUM_RAYS
  /\ \A i \in 1..Len(rays) :
       /\ ~rays[i].absorbed
       /\ Abs(rays[i].startPosition.y
                - (-Unit + (2 * Unit * i) \div (NUM_RAYS + 1))) <= FloatTol
  /\ call.op = "Pool::Update" =>
       \A i \in ReplacedSlots :
         /\ Constructed(rays[i])
         /\ rays[i].baseSpeed = raySpeed

\* An Update in which the ray of the middle slot reached the horizon and was
\* replaced, the others flying on.
C18_Witness ==
  /\ call.op = "Pool::Update"
  /\ ReplacedSlots # {}
  /\ ReplacedSlots # 1..NUM_RAYS
  /\ \E i \in ReplacedSlots :
       /\ ~NeedsReset(Advance(call.pre[i], call.deltaTime, blackholePos,
                              blackholeMass, blackholeRadius))
       /\ rays[i] # call.pre[i]

C20_TwoTerminalConditions ==
  LastUpdate =>
    /\ TheRay.absorbed =>
         /\ ~TheRay.headPosition.nan
         /\ Abs(Length(VSub(TheRay.headPosition, blackholePos)) - blackholeRadius)
              <= FloatTol
    /\ (~TheRay.absorbed /\ NeedsReset(TheRay)) =>
         LengthAbove(TheRay.headPosition, 2500)

\* Whether the last call ended in Reset: the constructor, or an Update whose
\* tests asked for it.
JustReset == call.op = "LightRay" \/ (LastUpdate /\ LastUpdateReset)

\* The unit vector of the ray's initialAngle.
LaunchDirection(ray) == V(Cos(ray.initialAngle), Sin(ray.initialAngle))

\* C21: after every Reset, at construction or from Update, the ray is not
\* absorbed, its absorption timer is 0, its trail is not empty and starts at
\* the head, the head is within 0.02 per axis of startPosition, the velocity is
\* within 0.03 rad of initialAngle, and an Update's Reset leaves startPosition,
\* initialAngle, baseSpeed and maxSegments as they were.
C21_ResetAroundLaunch ==
  JustReset =>
    /\ ~TheRay.absorbed
    /\ TheRay.timeSinceAbsorption = 0
    /\ TheRay.segments # <<>>
    /\ TheRay.segments[1] = TheRay.headPosition
    /\ Abs(TheRay.headPosition.x - TheRay.startPosition.x) <= 20
    /\ Abs(TheRay.headPosition.y - TheRay.startPosition.y) <= 20
    /\ Dot(LaunchDirection(TheRay), TheRay.headVelocity) > 0
    /\ Abs(Cross(LaunchDirection(TheRay), TheRay.headVelocity))
         <= RDiv(TheRay.baseSpeed * 30, Unit) + FloatTol
    /\ call.op = "LightRay" =>
         \E l \in Launches :
           /\ TheRay.startPosition = l.pos
           /\ TheRay.initialAngle = l.angle
           /\ TheRay.baseSpeed = l.speed
    /\ LastUpdate =>
         /\ TheRay.startPosition = call.pre.startPosition
         /\ TheRay.initialAngle = call.pre.initialAngle
         /\ TheRay.baseSpeed = call.pre.baseSpeed
         /\ TheRay.maxSegments = call.pre.maxSegments

\* An Update that reset a ray which an earlier Reset had already jittered, and
\* drew a jitter again.
C21_Witness ==
  /\ LastUpdate
  /\ LastUpdateReset
  /\ frame >= 2
  /\ call.pre.segments[Len(call.pre.segments)] # call.pre.startPosition
  /\ TheRay.headPosition # TheRay.startPosition
  /\ TheRay.headPosition # call.pre.headPosition

\* The proper time the last Update call added to the ray.
ProperTimeStep == TheRay.properTime - call.pre.properTime

\* C22: in the geodesic build every Update of a non-absorbed ray advances the
\* ray by an effective step, the growth of properTime, of at most deltaTime,
\* and by far less than deltaTime (a tenth at most) when the head is at
\* r <= rs.
C22_DilationOnlySlows ==
  (/\ LastUpdate
   /\ variant = "geodesic"
   /\ ~call.pre.absorbed
   /\ ~LastUpdateReset)
  => /\ ProperTimeStep <= call.deltaTime
     /\ Length(VSub(call.pre.headPosition, blackholePos)) <= 2 * blackholeMass
          => 10 * ProperTimeStep <= call.deltaTime

\* C23: with every frame at least MinDeltaTime long, a ray that is absorbed is
\* eventually reset: absorbed leads to not absorbed.
C23_AbsorbedLeadsToReset == TheRay.absorbed ~> ~TheRay.absorbed

\* An Update that respawned a ray which had been absorbed for more than one
\* frame.
C23_Witness ==
  /\ LastUpdate
  /\ call.pre.absorbed
  /\ call.pre.timeSinceAbsorption >= MinDeltaTime
  /\ call.deltaTime = MinDeltaTime
  /\ ~TheRay.absorbed

\* What a call may do to the spawn timer and the population: an Update whose
\* frame brings the accumulated time to spawnInterval makes one spawn attempt
\* (at most one batch more rays, the spiral advanced by as many) and restarts
\* the timer; any other Update adds deltaTime to the timer and no ray to the
\* population; InitRays restarts the timer; no other call touches it.
SpawnTick ==
  /\ call'.op = "BlackholeApp::Update" =>
       IF timeSinceLastSpawn + call'.deltaTime >= spawnInterval
       THEN /\ timeSinceLastSpawn' = 0
            /\ Len(rays') <= Len(rays)
                 + Min(RAYS_PER_SPAWN, Max(0, MAX_RAYS - Len(rays)))
            /\ currentStrategy' =
                 StrategyAfter(currentStrategy,
                               Min(RAYS_PER_SPAWN, Max(0, MAX_RAYS - Len(rays))))
       ELSE /\ timeSinceLastSpawn' = timeSinceLastSpawn + call'.deltaTime
            /\ Len(rays') <= Len(rays)
            /\ currentStrategy' = currentStrategy
  /\ call'.op = "InitRays" => timeSinceLastSpawn' = 0
  /\ call'.op \in {"SpawnRayBatch", "SetSpawnPattern"} =>
       timeSinceLastSpawn' = timeSinceLastSpawn
  /\ timeSinceLastSpawn' >= 0
  /\ timeSinceLastSpawn' < spawnInterval'

\* C24: BlackholeApp::Update makes a spawn attempt exactly in the frames in
\* which the time accumulated since the previous attempt, or since InitRays,
\* has reached spawnInterval, at most one per call, and then restarts the
\* accumulator, so that two attempts are at least spawnInterval apart.
C24_SpawnEveryInterval == [][SpawnTick]_vars

\* An Update of a short frame that spawned: the frame before had left the
\* timer half way.
C24_Witness ==
  /\ call.op = "BlackholeApp::Update"
  /\ call.deltaTime < spawnInterval
  /\ timeSinceLastSpawn = 0
  /\ Len(call.pre) = 0
  /\ Len(rays) > 0

\* The launch coordinates along the edge of the rays of the batch launched from
\* it, in the order they were made, with the posNoise draw taken off.
EdgeCoordinates(batch, edge, posNoise) ==
  LET FromEdge(ray) == OnEdge(ray, edge)
      onEdge == SelectSeq(batch, FromEdge)
  IN  [k \in 1..Len(onEdge) |->
         (IF edge \in {"left", "right"} THEN onEdge[k].startPosition.y
                                        ELSE onEdge[k].startPosition.x) - posNoise]

\* C25: for every count, the un-jittered launch coordinates of the rays the
\* four-edge strategy puts on one edge are equally spaced and strictly between
\* the edge's corners, -2 < c < 2.
C25_EvenlyAlongEdges ==
  (call.op = "CreateRayBatch" /\ call.pre.kind = "FOUR_EDGES") =>
    \E draw \in FactoryDraws :
      \A edge \in {"left", "right", "top", "bottom"} :
        LET c == EdgeCoordinates(result, edge, draw.pos)
        IN  /\ \A k \in 1..Len(c) : -2 * Unit < c[k] /\ c[k] < 2 * Unit
            /\ \A k \in 2..Len(c) : c[k] - c[k - 1] = c[2] - c[1]

\* C26: CreateRays never uses a null strategy: called on a null strategy it
\* installs the left-edge strategy and makes its rays with it, after which
\* GetCurrentStrategyName() is "LeftEdge"; the name is "None" only while the
\* strategy is null.
C26_NullStrategyFallback ==
  /\ call.op = "CreateRays" =>
       /\ currentStrategy.kind # "NONE"
       /\ GetCurrentStrategyName(currentStrategy) # "None"
       /\ Len(result) = args.count
       /\ call.pre.kind = "NONE" =>
            /\ GetCurrentStrategyName(currentStrategy) = "LeftEdge"
            /\ \A k \in 1..Len(result) : OnEdge(result[k], "left")
  /\ GetCurrentStrategyName(currentStrategy) = "None" =>
       /\ call.op = "SetSpawnStrategy"
       /\ args.strategy = NullStrategy

\* CreateRays called after SetSpawnStrategy(nullptr), for more than one ray.
C26_Witness ==
  /\ call.op = "CreateRays"
  /\ call.pre.kind = "NONE"
  /\ args.count > 1
  /\ Len(result) = args.count
  /\ GetCurrentStrategyName(currentStrategy) = "LeftEdge"

\* C27: a ray as its constructor, or a Reset, left it does not satisfy
\* NeedsReset(), and a BlackholeApp::Update that finds only such rays erases
\* none of them.
C27_FreshRaySurvives ==
  /\ \A i \in 1..Len(rays) : Constructed(rays[i]) => ~NeedsReset(rays[i])
  /\ (/\ call.op = "BlackholeApp::Update"
      /\ NoRaySpawned
      /\ \A i \in 1..Len(call.pre) : Constructed(call.pre[i]))
     => Len(rays) = Len(call.pre)

\* C28: in every BlackholeApp::Update, each ray that is in the population when
\* the loop starts (the rays the call found and those it spawned) has
\* LightRay::Update called on it exactly once, however many rays the loop
\* erases.
C28_EachRayUpdatedOnce ==
  call.op = "BlackholeApp::Update" =>
    /\ Len(call.visits) >= Len(call.pre)
    /\ Len(call.visits) >= Len(rays)
    /\ \A i \in 1..Len(call.visits) : call.visits[i] = 1

\* An Update whose loop erased two rays, the first of them not the last ray of
\* the population.
C28_Witness ==
  /\ call.op = "BlackholeApp::Update"
  /\ Len(call.visits) >= 4
  /\ Len(rays) = Len(call.visits) - 2
  /\ rays # <<>>
  /\ \A i \in 1..Len(call.visits) : call.visits[i] = 1

\* C29: in every state, from construction onwards, the strategy the factory
\* uses is the one currentPattern names.
C29_PatternNamesStrategy == currentStrategy.kind = currentPattern

\* C30: for every position at least minDistance from the black hole, the
\* vector CalculateGeodesicDeflection returns has no component pointing away
\* from the black hole: its product with the unit vector towards the black
\* hole is not negative.
C30_DeflectionTowardsHole ==
  (/\ call.op = "CalculateGeodesicDeflection"
   /\ Length(VSub(blackholePos, args.position)) >= minDistance)
  => /\ ~result.nan
     /\ Dot(result, Normalize(VSub(blackholePos, args.position))) >= -FloatTol
====
